---- MODULE Spec2Model ----
(***************************************************************************)
(* A model of goose, a minimal npm-style package installer (package pkg    *)
(* and the command main).                                                  *)
(*                                                                         *)
(* Strings are sequences of tokens.  The tokens "@", "/", " ", "_", "."    *)
(* and ".." are the characters (and path segments) the code tests for;     *)
(* every other token stands for a non-empty run of other characters        *)
(* (a package name, a version, a file name).                               *)
(***************************************************************************)
EXTENDS Integers, Sequences, FiniteSets, TLC

VARIABLES
    args,        \* os.Args[1:], the command line of main
    mainpc,      \* position of main: "start", "loop", "call", "done"
    argi,        \* index of the argument main is working on
    out,         \* the lines main printed, in order (without the error text)
    attempts,    \* the Parse and Install calls main has made, in order
    installed,   \* the package-level map installed (keys set to true)
    stack,       \* the call stack of Install activations, innermost last
    fs,          \* the file system: path -> node (dir, file, link)
    cacheDirErr, \* whether os.UserCacheDir fails in this environment
    fetchCount,  \* archive URL -> number of downloadAndExtract calls on it
    lastLinked,  \* name -> cache path of the most recent os.Symlink for it
    faults,      \* number of environment failures that have occurred
    pArg, pOut,  \* an input of Parse and its result
    rMeta, rPkg, rOut, \* an input of the resolution and its result
    procs,       \* processes sharing fs: process -> its Install activation
    cPkgs, cOut, \* two inputs of getCachePath and their results
    xHdr, xOut   \* a tar entry given to the extraction and its result

vars == <<args, mainpc, argi, out, attempts, installed, stack, fs, cacheDirErr,
          fetchCount, lastLinked, faults, pArg, pOut, rMeta, rPkg, rOut,
          procs, cPkgs, cOut, xHdr, xOut>>

mainVars == <<args, mainpc, argi, out, attempts>>
engineVars == <<installed, stack, fs, cacheDirErr, fetchCount, lastLinked, faults>>
parseVars == <<pArg, pOut>>
resolveVars == <<rMeta, rPkg, rOut>>
raceVars == <<procs>>
cacheVars == <<cPkgs, cOut>>
extractVars == <<xHdr, xOut>>

\* a nil pointer; also the value of a result that was not produced
Nil == <<>>

\* F(v) and F(v, w), the arguments evaluated once before F is applied
Apply1(F(_), v) == CHOOSE r \in {F(x) : x \in {v}} : TRUE
Apply2(F(_, _), v, w) == CHOOSE r \in {F(x, y) : x \in {v}, y \in {w}} : TRUE
Apply3(F(_, _, _), u, v, w) ==
    CHOOSE r \in {F(x, y, z) : x \in {u}, y \in {v}, z \in {w}} : TRUE

(***************************************************************************)
(* Bounds of the model.                                                    *)
(***************************************************************************)
MaxLen == 4        \* longest raw argument given to Parse, in tokens
MaxVersions == 3   \* most keys in a versions mapping given to the resolution
MaxArgs == 2       \* most command-line arguments
MaxFaults == 1     \* most environment failures in one run
MaxDepth == 12     \* deepest Install recursion the model follows
MaxProcs == 3      \* most processes installing at the same time

(***************************************************************************)
(* package strings                                                         *)
(***************************************************************************)
Str(t) == <<t>>

Contains(s, c) == \E i \in 1..Len(s) : s[i] = c

HasPrefix(s, p) == Len(s) >= Len(p) /\ SubSeq(s, 1, Len(p)) = p

TrimPrefix(s, p) == IF HasPrefix(s, p) THEN SubSeq(s, Len(p) + 1, Len(s)) ELSE s

IndexFromEnd(s, c) ==
    IF \E i \in 1..Len(s) : s[i] = c
    THEN CHOOSE i \in 1..Len(s) : s[i] = c /\ \A j \in (i + 1)..Len(s) : s[j] # c
    ELSE 0

\* strings.Index / strings.LastIndex, 1-based; 0 when c does not occur
Index(s, c) ==
    IF Contains(s, c) THEN CHOOSE i \in 1..Len(s) :
                               s[i] = c /\ \A j \in 1..(i - 1) : s[j] # c
    ELSE 0

LastIndex(s, c) ==
    IF Contains(s, c) THEN CHOOSE i \in 1..Len(s) :
                               s[i] = c /\ \A j \in (i + 1)..Len(s) : s[j] # c
    ELSE 0

Count(s, c) == Cardinality({i \in 1..Len(s) : s[i] = c})

ReplaceAll(s, c, d) == [i \in 1..Len(s) |-> IF s[i] = c THEN d ELSE s[i]]

LATEST == <<"latest">>

(***************************************************************************)
(* Parse: a raw argument to PackageInfo{Name, Version} or an error.        *)
(***************************************************************************)
ParseOk(name, version) == [err |-> "nil", Name |-> name, Version |-> version]
ParseErr(e) == [err |-> e, Name |-> <<>>, Version |-> <<>>]

ParseNoSpaceCheck(arg) ==
    IF arg = <<>> THEN ParseErr("package name cannot be empty")
    ELSE IF Contains(arg, "@") /\ ~HasPrefix(arg, <<"@">>) THEN
        LET at == Index(arg, "@")
            before == SubSeq(arg, 1, at - 1)
            after == SubSeq(arg, at + 1, Len(arg))
        IN  IF before = <<>> THEN ParseErr("package name cannot be empty before '@'")
            ELSE ParseOk(before, after)
    ELSE IF HasPrefix(arg, <<"@">>) THEN
        LET at == LastIndex(arg, "@")
        IN  IF at > 1 THEN
                LET name == SubSeq(arg, 1, at - 1)
                IN  IF name = <<>> THEN ParseErr("invalid scoped package")
                    ELSE ParseOk(name, SubSeq(arg, at + 1, Len(arg)))
            ELSE IF Count(arg, "/") < 1 THEN ParseErr("invalid scoped package name")
            ELSE ParseOk(arg, LATEST)
    ELSE ParseOk(arg, LATEST)

Parse(arg) ==
    IF arg = <<>> THEN ParseErr("package name cannot be empty")
    ELSE IF Contains(arg, "@") /\ ~HasPrefix(arg, <<"@">>) THEN
        \* parts := strings.SplitN(arg, "@", 2)
        LET at == Index(arg, "@")
            before == SubSeq(arg, 1, at - 1)
            after == SubSeq(arg, at + 1, Len(arg))
        IN  IF before = <<>> THEN ParseErr("package name cannot be empty before '@'")
            ELSE ParseOk(before, after)
    ELSE IF HasPrefix(arg, <<"@">>) THEN
        \* at is 1-based here: Go's at > 0 is at > 1
        LET at == LastIndex(arg, "@")
        IN  IF at > 1 THEN
                LET name == SubSeq(arg, 1, at - 1)
                IN  IF name = <<>> THEN ParseErr("invalid scoped package")
                    ELSE ParseOk(name, SubSeq(arg, at + 1, Len(arg)))
            ELSE IF Count(arg, "/") < 1 THEN ParseErr("invalid scoped package name")
            ELSE ParseOk(arg, LATEST)
    ELSE IF Contains(arg, " ") THEN ParseErr("package name cannot contain spaces")
    ELSE ParseOk(arg, LATEST)

(***************************************************************************)
(* github.com/Masterminds/semver/v3, as resolvePackage uses it.  A parsed  *)
(* version is <<major, minor, patch, release>>, release = 0 for a          *)
(* pre-release and 1 otherwise; build metadata and a leading "v" do not    *)
(* take part in the comparison.                                            *)
(***************************************************************************)
VersionTable ==
    ("1.0.0" :> <<1, 0, 0, 1>>) @@ ("1.2.0" :> <<1, 2, 0, 1>>) @@
    ("v1.2.0" :> <<1, 2, 0, 1>>) @@ ("2.0.0" :> <<2, 0, 0, 1>>) @@
    ("2.0.0-beta" :> <<2, 0, 0, 0>>) @@ ("3.1.0" :> <<3, 1, 0, 1>>)

\* semver.NewVersion: Nil is the error
NewVersion(v) ==
    IF Len(v) = 1 /\ v[1] \in DOMAIN VersionTable THEN VersionTable[v[1]] ELSE Nil

ConstraintTable ==
    ("^1.0.0" :> [op |-> "caret", v |-> <<1, 0, 0, 1>>]) @@
    (">=1.2.0" :> [op |-> "ge", v |-> <<1, 2, 0, 1>>]) @@
    ("3.x" :> [op |-> "major", v |-> <<3, 0, 0, 1>>]) @@
    ("*" :> [op |-> "any", v |-> <<0, 0, 0, 1>>]) @@
    ("1.0.0" :> [op |-> "eq", v |-> <<1, 0, 0, 1>>]) @@
    ("1.2.0" :> [op |-> "eq", v |-> <<1, 2, 0, 1>>]) @@
    ("2.0.0" :> [op |-> "eq", v |-> <<2, 0, 0, 1>>])

NoConstraint == [op |-> "error", v |-> Nil]

\* semver.NewConstraint: NoConstraint is the error
NewConstraint(s) ==
    IF Len(s) = 1 /\ s[1] \in DOMAIN ConstraintTable THEN ConstraintTable[s[1]]
    ELSE NoConstraint

\* (*Version).LessThan / GreaterThan: major, minor, patch, then pre-release
LessThan(a, b) ==
    \E i \in 1..4 : a[i] < b[i] /\ \A j \in 1..(i - 1) : a[j] = b[j]

GreaterThan(a, b) == LessThan(b, a)

\* (*Constraints).Check: a pre-release version satisfies no constraint that
\* names no pre-release
Check(c, ver) ==
    /\ ver[4] = 1
    /\ CASE c.op = "caret" -> ~LessThan(ver, c.v) /\ ver[1] = c.v[1]
         [] c.op = "ge" -> ~LessThan(ver, c.v)
         [] c.op = "major" -> ver[1] = c.v[1]
         [] c.op = "eq" -> ver = c.v
         [] OTHER -> TRUE

(***************************************************************************)
(* resolvePackage, after the metadata has been fetched and decoded.        *)
(* order is the order in which range meta.Versions yields the keys.        *)
(***************************************************************************)
Orders(S) ==
    {o \in [1..Cardinality(S) -> S] : \A i, j \in DOMAIN o : i # j => o[i] # o[j]}

ResolveOk(version, vinfo) ==
    [err |-> "nil", resolved |-> version, tarball |-> vinfo.Tarball,
     deps |-> vinfo.Dependencies]
ResolveErr(e) == [err |-> e, resolved |-> <<>>, tarball |-> <<>>, deps |-> <<>>]

NoMatch == [ver |-> <<>>, sem |-> Nil]

\* the body of the loop over meta.Versions, for key v
scanStepAnyMatch(m, c, v) ==
    LET ver == NewVersion(v)
    IN  IF ver = Nil THEN m
        ELSE IF Check(c, ver) THEN [ver |-> v, sem |-> ver]
        ELSE m

scanStep(m, c, v) ==
    LET ver == NewVersion(v)
    IN  IF ver = Nil THEN m
        ELSE IF Check(c, ver) THEN
                 IF m.sem = Nil \/ GreaterThan(ver, m.sem) THEN [ver |-> v, sem |-> ver]
                 ELSE m
        ELSE m

RECURSIVE scanVersions(_, _, _, _)
scanVersions(order, c, i, m) ==
    IF i > Len(order) THEN m
    ELSE scanVersions(order, c, i + 1, scanStep(m, c, order[i]))

substituteTagAfterKey(meta, sel) ==
    IF sel \in DOMAIN meta.Versions THEN sel
    ELSE IF sel \in DOMAIN meta.DistTags THEN meta.DistTags[sel] ELSE sel

substituteTag(meta, sel) ==
    IF sel \in DOMAIN meta.DistTags THEN meta.DistTags[sel] ELSE sel

resolveVersion(meta, pkg, order) ==
    LET version == substituteTag(meta, pkg.Version)
    IN  IF version \in DOMAIN meta.Versions THEN ResolveOk(version, meta.Versions[version])
        ELSE LET constraint == NewConstraint(version)
             IN  IF constraint.op = "error" THEN ResolveErr("invalid version constraint")
                 ELSE LET matched == scanVersions(order, constraint, 1, NoMatch)
                      IN  IF matched.ver = <<>> THEN ResolveErr("no matching version found")
                          ELSE ResolveOk(matched.ver, meta.Versions[matched.ver])

(***************************************************************************)
(* path/filepath.  A path is a string whose "/" tokens separate segments.  *)
(***************************************************************************)
\* strings.Split(p, "/"): the k-th segment lies between the (k-1)-th and
\* the k-th "/" of p
splitSlash(p) ==
    LET cuts == {i \in 1..Len(p) : p[i] = "/"}
        n == Cardinality(cuts)
        cut(k) == IF k = 0 THEN 0
                  ELSE IF k = n + 1 THEN Len(p) + 1
                  ELSE CHOOSE i \in cuts : Cardinality({j \in cuts : j < i}) = k - 1
    IN  [k \in 1..(n + 1) |-> SubSeq(p, cut(k - 1) + 1, cut(k) - 1)]

Segments(p) == Apply1(splitSlash, p)

\* the lexical processing of filepath.Clean, segment by segment
RECURSIVE cleanSegments(_, _, _, _)
cleanSegments(segs, i, acc, rooted) ==
    IF i > Len(segs) THEN acc
    ELSE LET seg == segs[i]
         IN  IF seg = <<>> \/ seg = <<".">> THEN cleanSegments(segs, i + 1, acc, rooted)
             ELSE IF seg = <<"..">> THEN
                 IF acc # <<>> /\ acc[Len(acc)] # <<"..">>
                     THEN cleanSegments(segs, i + 1, SubSeq(acc, 1, Len(acc) - 1), rooted)
                 ELSE IF rooted THEN cleanSegments(segs, i + 1, acc, rooted)
                 ELSE cleanSegments(segs, i + 1, Append(acc, seg), rooted)
             ELSE cleanSegments(segs, i + 1, Append(acc, seg), rooted)

RECURSIVE joinSegments(_)
joinSegments(segs) ==
    IF segs = <<>> THEN <<>>
    ELSE IF Len(segs) = 1 THEN segs[1]
    ELSE segs[1] \o <<"/">> \o joinSegments(Tail(segs))

cleanBody(segs, rooted) == joinSegments(cleanSegments(segs, 1, <<>>, rooted))

cleanRooted(body, rooted) ==
    IF rooted THEN <<"/">> \o body
    ELSE IF body = <<>> THEN <<".">> ELSE body

cleanPath(p) ==
    Apply2(cleanRooted,
           Apply2(cleanBody, Segments(p), HasPrefix(p, <<"/">>)),
           HasPrefix(p, <<"/">>))

\* filepath.Clean
Clean(p) == Apply1(cleanPath, p)

\* filepath.Join: empty elements are ignored, the result is cleaned
RECURSIVE concatElems(_)
concatElems(elems) ==
    IF elems = <<>> THEN <<>>
    ELSE IF elems[1] = <<>> THEN concatElems(Tail(elems))
    ELSE LET rest == concatElems(Tail(elems))
         IN  IF rest = <<>> THEN elems[1] ELSE elems[1] \o <<"/">> \o rest

cleanJoined(joined) == IF joined = <<>> THEN <<>> ELSE Clean(joined)

Join(elems) == Apply1(cleanJoined, Apply1(concatElems, elems))

\* filepath.Dir
dirOf(p) ==
    LET i == LastIndex(p, "/")
    IN  IF i = 0 THEN <<".">>
        ELSE IF i = 1 THEN <<"/">>
        ELSE Clean(SubSeq(p, 1, i - 1))

Dir(p) == Apply1(dirOf, p)

(***************************************************************************)
(* The file system, as package os acts on it.                              *)
(***************************************************************************)
DirNode == [kind |-> "dir", data |-> "", complete |-> TRUE, target |-> <<>>]
FileNode(d, c) == [kind |-> "file", data |-> d, complete |-> c, target |-> <<>>]
LinkNode(t) == [kind |-> "link", data |-> "", complete |-> TRUE, target |-> t]

FsOk(f) == [ok |-> TRUE, fs |-> f]
FsErr(f) == [ok |-> FALSE, fs |-> f]

\* os.Stat(p) without error
Exists(f, p) == p \in DOMAIN f

Under(q, p) == HasPrefix(q, p \o <<"/">>)

\* the directories above p, the root and "." left out
Parents(p) == {SubSeq(p, 1, i - 1) : i \in {j \in 2..Len(p) : p[j] = "/"}}

mkdirAll(f, p) ==
    LET need == (Parents(p) \cup {p}) \ {<<".">>, <<"/">>}
    IN  IF \E q \in need : q \in DOMAIN f /\ f[q].kind = "file" THEN FsErr(f)
        ELSE FsOk([q \in DOMAIN f \cup need |-> IF q \in DOMAIN f THEN f[q] ELSE DirNode])

\* os.MkdirAll
MkdirAll(f, p) == Apply2(mkdirAll, f, p)

\* os.Create followed by io.Copy of data d; whole = FALSE when the copy broke off
putNode(f, p, node) ==
    FsOk([q \in DOMAIN f \cup {p} |-> IF q = p THEN node ELSE f[q]])

writeFile(f, p, node) ==
    IF p \in DOMAIN f /\ f[p].kind = "dir" THEN FsErr(f) ELSE putNode(f, p, node)

WriteFile(f, p, d, whole) == Apply3(writeFile, f, p, FileNode(d, whole))

removeAll(f, p) ==
    [q \in {r \in DOMAIN f : r # p /\ ~Under(r, p)} |-> f[q]]

\* os.RemoveAll
RemoveAll(f, p) == Apply2(removeAll, f, p)

symlink(f, p, node) ==
    IF p \in DOMAIN f THEN FsErr(f) ELSE putNode(f, p, node)

\* os.Symlink(target, p)
Symlink(f, target, p) == Apply3(symlink, f, p, LinkNode(target))

\* the files below directory p: <<relative path, data, complete>>
filesUnder(f, p) ==
    {<<SubSeq(q, Len(p) + 2, Len(q)), f[q].data, f[q].complete>> :
        q \in {r \in DOMAIN f : Under(r, p) /\ f[r].kind = "file"}}

FilesUnder(f, p) == Apply2(filesUnder, f, p)

subtree(f, p) == [q \in {r \in DOMAIN f : r = p \/ Under(r, p)} |-> f[q]]

\* the part of the file system at and below p
Subtree(f, p) == Apply2(subtree, f, p)

(***************************************************************************)
(* The environment: the registry's metadata documents and archives.        *)
(*   a@1.0.0 -> b@^1.0.0,   a@2.0.0 -> b@1.0.0, c@latest,                    *)
(*   b@1.0.0 -> a@1.0.0 (a cycle through a@1.0.0),   c@1.0.0 -> b@^1.0.0    *)
(*   (b@1.0.0 and b@^1.0.0 are two selectors for the same version of b).   *)
(***************************************************************************)
PkgA == <<"a">>
PkgB == <<"b">>
PkgC == <<"c">>
V100 == <<"1.0.0">>
V200 == <<"2.0.0">>

Url(name, version) == <<"tgz:">> \o name \o <<"-">> \o version

VersionInfo(tarball, deps) == [Tarball |-> tarball, Dependencies |-> deps]

Registry ==
    (PkgA :> [DistTags |-> (LATEST :> V200),
              Versions |->
                  (V100 :> VersionInfo(Url(PkgA, V100), (PkgB :> <<"^1.0.0">>))) @@
                  (V200 :> VersionInfo(Url(PkgA, V200), (PkgB :> V100) @@ (PkgC :> LATEST)))]) @@
    (PkgB :> [DistTags |-> (LATEST :> V100),
              Versions |-> (V100 :> VersionInfo(Url(PkgB, V100), (PkgA :> V100)))]) @@
    (PkgC :> [DistTags |-> (LATEST :> V100),
              Versions |-> (V100 :> VersionInfo(Url(PkgC, V100), (PkgB :> <<"^1.0.0">>)))])

\* a tar header and the entry's bytes
Entry(name, isDir, data) == [Name |-> name, IsDir |-> isDir, data |-> data]

Archives ==
    (Url(PkgA, V100) :> <<Entry(<<"package", "/", "index.js">>, FALSE, "a1")>>) @@
    (Url(PkgA, V200) :> <<Entry(<<"README">>, FALSE, "r"),
                          Entry(<<"package", "/", "lib">>, TRUE, ""),
                          Entry(<<"package", "/", "lib", "/", "a.js">>, FALSE, "a2")>>) @@
    (Url(PkgB, V100) :> <<Entry(<<"package", "/", "index.js">>, FALSE, "b1"),
                          Entry(<<"package", "/", "util.js">>, FALSE, "b2")>>) @@
    (Url(PkgC, V100) :> <<Entry(<<"package", "/", "c.js">>, FALSE, "c1")>>)

\* os.UserCacheDir() when it succeeds
UserCacheDir == <<"/", "cache">>

(***************************************************************************)
(* Install: one activation per call, stepped by its position pc.           *)
(***************************************************************************)
NewFrame(name, sel) ==
    [name |-> name, sel |-> sel, pc |-> "enter", resolved |-> <<>>, tarball |-> <<>>,
     deps |-> <<>>, todo |-> {}, cachePath |-> <<>>, existed |-> FALSE, fetches |-> 0,
     snap |-> <<>>, idx |-> 0, err |-> "nil", short |-> FALSE]

Top == stack[Len(stack)]
SetTop(f) == [stack EXCEPT ![Len(stack)] = f]
Running == Len(stack) > 0
Returned(f) == f.pc \in {"retOk", "retErr"}
FailIgnored(f, e) == [f EXCEPT !.pc = "link", !.err = e]

\* return fmt.Errorf(...)
Fail(f, e) == [f EXCEPT !.pc = "retErr", !.err = e]

\* key := pkg.Name + "@" + pkg.Version
Key(name, sel) == name \o <<"@">> \o sel

markInstalledNever(key) == installed

\* installed[key] = true
markInstalled(key) == installed \cup {key}

visitedNever(key) == FALSE

\* if installed[key]
visited(key) == key \in installed

InstallEnter ==
    /\ Running /\ Top.pc = "enter"
    /\ LET key == Key(Top.name, Top.sel)
       IN  IF visited(key)
           THEN /\ stack' = SetTop([Top EXCEPT !.pc = "retOk", !.short = TRUE])
                /\ UNCHANGED installed
           ELSE /\ installed' = markInstalled(key)
                /\ stack' = SetTop([Top EXCEPT !.pc = "resolve"])
    /\ UNCHANGED <<fs, cacheDirErr, fetchCount, lastLinked, faults>>
    /\ UNCHANGED <<mainVars, parseVars, resolveVars, raceVars, cacheVars, extractVars>>

\* resolvePackage: the metadata request fails, or is answered from Registry
InstallResolveFault ==
    /\ Running /\ Top.pc = "resolve"
    /\ faults < MaxFaults
    /\ \E e \in {"fetch metadata", "decode metadata"} :
           stack' = SetTop(Fail(Top, e))
    /\ faults' = faults + 1
    /\ UNCHANGED <<installed, fs, cacheDirErr, fetchCount, lastLinked>>
    /\ UNCHANGED <<mainVars, parseVars, resolveVars, raceVars, cacheVars, extractVars>>

InstallResolve ==
    /\ Running /\ Top.pc = "resolve"
    /\ IF Top.name \notin DOMAIN Registry
       THEN stack' = SetTop(Fail(Top, "unexpected status code"))
       ELSE LET meta == Registry[Top.name]
            IN  \E order \in Orders(DOMAIN meta.Versions) :
                    LET r == resolveVersion(meta, [Name |-> Top.name, Version |-> Top.sel], order)
                    IN  IF r.err # "nil" THEN stack' = SetTop(Fail(Top, r.err))
                        ELSE stack' = SetTop([Top EXCEPT !.pc = "cache",
                                                         !.resolved = r.resolved,
                                                         !.tarball = r.tarball,
                                                         !.deps = r.deps,
                                                         !.todo = DOMAIN r.deps])
    /\ UNCHANGED <<installed, fs, cacheDirErr, fetchCount, lastLinked, faults>>
    /\ UNCHANGED <<mainVars, parseVars, resolveVars, raceVars, cacheVars, extractVars>>

getCachePath(name, version) ==
    LET safe == ReplaceAll(name, "/", "_")
    IN  Join(<<UserCacheDir, <<"npm-go">>, safe, version>>)

needsFetchAlways(f, cachePath) == TRUE

\* _, err := os.Stat(cachePath); os.IsNotExist(err)
needsFetch(f, cachePath) == ~Exists(f, cachePath)

\* the activation fr after getCachePath and os.Stat on the file system f
cacheCheck(fr, f) ==
    LET cachePath == getCachePath(fr.name, fr.resolved)
        checked == [fr EXCEPT !.cachePath = cachePath,
                              !.existed = Exists(f, cachePath),
                              !.snap = Subtree(f, cachePath)]
    IN  IF needsFetch(f, cachePath) THEN [checked EXCEPT !.pc = "download"]
        ELSE [checked EXCEPT !.pc = "link"]

InstallCacheCheck ==
    /\ Running /\ Top.pc = "cache"
    /\ IF cacheDirErr THEN stack' = SetTop(Fail(Top, "get user cache dir"))
       ELSE stack' = SetTop(cacheCheck(Top, fs))
    /\ UNCHANGED <<installed, fs, cacheDirErr, fetchCount, lastLinked, faults>>
    /\ UNCHANGED <<mainVars, parseVars, resolveVars, raceVars, cacheVars, extractVars>>

\* downloadAndExtract up to the tar reader: http.Get and gzip.NewReader
InstallDownload ==
    /\ Running /\ Top.pc = "download"
    /\ fetchCount' = [fetchCount EXCEPT ![Top.tarball] = @ + 1]
    /\ \/ /\ stack' = SetTop([Top EXCEPT !.pc = "extract", !.idx = 1,
                                         !.fetches = @ + 1])
          /\ UNCHANGED faults
       \/ /\ faults < MaxFaults
          /\ \E e \in {"http get", "gzip reader"} :
                 stack' = SetTop([Fail(Top, e) EXCEPT !.fetches = @ + 1])
          /\ faults' = faults + 1
    /\ UNCHANGED <<installed, fs, cacheDirErr, lastLinked>>
    /\ UNCHANGED <<mainVars, parseVars, resolveVars, raceVars, cacheVars, extractVars>>

PackagePrefix == <<"package", "/">>

\* filepath.Join(dest, strings.TrimPrefix(hdr.Name, "package/"))
extractTarget(dest, name) == Join(<<dest, TrimPrefix(name, PackagePrefix)>>)

extractFailedCleanup(f, dest) == RemoveAll(f, dest)

\* an error return of downloadAndExtract: what has been written stays
extractFailed(f, dest) == f

ExtractOk(f) == [fs |-> f, err |-> "nil"]
ExtractErr(f, dest, e) == [fs |-> extractFailed(f, dest), err |-> e]

\* the body of the loop over the tar entries, for the entry hdr
extractEntry(f, dest, hdr) ==
    IF ~HasPrefix(hdr.Name, PackagePrefix) THEN ExtractOk(f)
    ELSE LET target == extractTarget(dest, hdr.Name)
         IN  IF hdr.IsDir
             THEN LET made == MkdirAll(f, target)
                  IN  IF made.ok THEN ExtractOk(made.fs)
                      ELSE ExtractErr(made.fs, dest, "mkdir")
             ELSE LET made == MkdirAll(f, Dir(target))
                      written == WriteFile(made.fs, target, hdr.data, TRUE)
                  IN  IF ~made.ok THEN ExtractErr(made.fs, dest, "mkdir parent")
                      ELSE IF written.ok THEN ExtractOk(written.fs)
                      ELSE ExtractErr(written.fs, dest, "create file")

\* one turn of the loop over the tar entries
InstallExtractEntry ==
    /\ Running /\ Top.pc = "extract"
    /\ LET archive == Archives[Top.tarball]
       IN  IF Top.idx > Len(archive)
           THEN \* io.EOF
                /\ stack' = SetTop([Top EXCEPT !.pc = "link"])
                /\ UNCHANGED fs
           ELSE LET r == extractEntry(fs, Top.cachePath, archive[Top.idx])
                IN  /\ fs' = r.fs
                    /\ stack' = SetTop(IF r.err = "nil" THEN [Top EXCEPT !.idx = @ + 1]
                                       ELSE Fail(Top, r.err))
    /\ UNCHANGED <<installed, cacheDirErr, fetchCount, lastLinked, faults>>
    /\ UNCHANGED <<mainVars, parseVars, resolveVars, raceVars, cacheVars, extractVars>>

\* the same turn when the environment fails: the tar stream breaks, a
\* directory or file cannot be made, or the copy breaks off
InstallExtractFault ==
    /\ Running /\ Top.pc = "extract"
    /\ faults < MaxFaults
    /\ Top.idx <= Len(Archives[Top.tarball])
    /\ LET hdr == Archives[Top.tarball][Top.idx]
           dest == Top.cachePath
           target == extractTarget(dest, hdr.Name)
           made == MkdirAll(fs, Dir(target))
       IN  \/ /\ stack' = SetTop(Fail(Top, "read tar"))
              /\ fs' = extractFailed(fs, dest)
           \/ /\ HasPrefix(hdr.Name, PackagePrefix)
              /\ stack' = SetTop(Fail(Top, IF hdr.IsDir THEN "mkdir" ELSE "mkdir parent"))
              /\ fs' = extractFailed(fs, dest)
           \/ /\ HasPrefix(hdr.Name, PackagePrefix) /\ ~hdr.IsDir /\ made.ok
              /\ stack' = SetTop(Fail(Top, "create file"))
              /\ fs' = extractFailed(made.fs, dest)
           \/ /\ HasPrefix(hdr.Name, PackagePrefix) /\ ~hdr.IsDir /\ made.ok
              /\ stack' = SetTop(Fail(Top, "copy to"))
              /\ fs' = extractFailed(WriteFile(made.fs, target, hdr.data, FALSE).fs, dest)
    /\ faults' = faults + 1
    /\ UNCHANGED <<installed, cacheDirErr, fetchCount, lastLinked>>
    /\ UNCHANGED <<mainVars, parseVars, resolveVars, raceVars, cacheVars, extractVars>>

LinkPath(name) == Join(<<<<"node_modules">>, name>>)

linkStepKeepExisting(f, linkPath, cachePath) ==
    IF linkPath \in DOMAIN f THEN FsOk(f)
    ELSE LET made == MkdirAll(f, Dir(linkPath))
         IN  IF ~made.ok THEN made ELSE Symlink(made.fs, cachePath, linkPath)

\* os.RemoveAll(linkPath); os.MkdirAll(filepath.Dir(linkPath)); os.Symlink
linkStep(f, linkPath, cachePath) ==
    LET removed == RemoveAll(f, linkPath)
        made == MkdirAll(removed, Dir(linkPath))
    IN  IF ~made.ok THEN made ELSE Symlink(made.fs, cachePath, linkPath)

InstallLink ==
    /\ Running /\ Top.pc = "link"
    /\ LET linkPath == LinkPath(Top.name)
           linked == linkStep(fs, linkPath, Top.cachePath)
       IN  \/ /\ fs' = linked.fs
              /\ stack' = SetTop(IF linked.ok THEN [Top EXCEPT !.pc = "deps"]
                                 ELSE Fail(Top, "link"))
              /\ UNCHANGED faults
           \/ /\ faults < MaxFaults
              /\ \E e \in {"create parent dir", "symlink"} :
                     stack' = SetTop(Fail(Top, e))
              /\ fs' = RemoveAll(fs, linkPath)
              /\ faults' = faults + 1
    /\ lastLinked' = [lastLinked EXCEPT ![Top.name] = Top.cachePath]
    /\ UNCHANGED <<installed, cacheDirErr, fetchCount>>
    /\ UNCHANGED <<mainVars, parseVars, resolveVars, raceVars, cacheVars, extractVars>>

\* for dep, depVer := range deps { Install(PackageInfo{dep, depVer}) ...
InstallDepCall ==
    /\ Running /\ Top.pc = "deps" /\ Top.todo # {}
    /\ Len(stack) < MaxDepth
    /\ \E dep \in Top.todo :
           stack' = Append(SetTop([Top EXCEPT !.todo = @ \ {dep}]),
                           NewFrame(dep, Top.deps[dep]))
    /\ UNCHANGED <<installed, fs, cacheDirErr, fetchCount, lastLinked, faults>>
    /\ UNCHANGED <<mainVars, parseVars, resolveVars, raceVars, cacheVars, extractVars>>

InstallDepsDone ==
    /\ Running /\ Top.pc = "deps" /\ Top.todo = {}
    /\ stack' = SetTop([Top EXCEPT !.pc = "retOk"])
    /\ UNCHANGED <<installed, fs, cacheDirErr, fetchCount, lastLinked, faults>>
    /\ UNCHANGED <<mainVars, parseVars, resolveVars, raceVars, cacheVars, extractVars>>

\* what the caller does with a dependency's error
afterDepIgnoreError(parent, child) == parent

afterDep(parent, child) ==
    IF child.pc = "retErr" THEN Fail(parent, "install dep") ELSE parent

\* a dependency's Install returns to the Install that called it
InstallReturn ==
    /\ Len(stack) >= 2 /\ Returned(Top)
    /\ LET n == Len(stack)
       IN  stack' = [SubSeq(stack, 1, n - 1) EXCEPT ![n - 1] = afterDep(stack[n - 1], Top)]
    /\ UNCHANGED <<installed, fs, cacheDirErr, fetchCount, lastLinked, faults>>
    /\ UNCHANGED <<mainVars, parseVars, resolveVars, raceVars, cacheVars, extractVars>>

(***************************************************************************)
(* main: the command line, one Parse and one Install per argument.         *)
(***************************************************************************)
Completion == <<"All packages installed.">>

MainUsage ==
    /\ mainpc = "start" /\ Len(args) < 1
    /\ out' = Append(out, <<"Usage: goose <package[@version]> [...]">>)
    /\ mainpc' = "exit"
    /\ UNCHANGED <<args, argi, attempts>>
    /\ UNCHANGED <<engineVars, parseVars, resolveVars, raceVars, cacheVars, extractVars>>

MainEnterLoop ==
    /\ mainpc = "start" /\ Len(args) >= 1
    /\ mainpc' = "loop"
    /\ UNCHANGED <<args, argi, out, attempts>>
    /\ UNCHANGED <<engineVars, parseVars, resolveVars, raceVars, cacheVars, extractVars>>

nextArgBreak(i) == Len(args) + 1

\* continue: the loop goes on with the next argument
nextArg(i) == i + 1

\* pkg, err := p.Parse(arg), and on success the call p.Install(pkg)
MainParse ==
    /\ mainpc = "loop" /\ argi <= Len(args)
    /\ LET pkg == Parse(args[argi])
       IN  IF pkg.err # "nil"
           THEN /\ out' = Append(out, <<"Error parsing package", args[argi]>>)
                /\ attempts' = Append(attempts, <<"Parse", argi>>)
                /\ argi' = nextArg(argi)
                /\ UNCHANGED <<mainpc, stack>>
           ELSE /\ attempts' = attempts \o <<<<"Parse", argi>>, <<"Install", argi>>>>
                /\ stack' = <<NewFrame(pkg.Name, pkg.Version)>>
                /\ mainpc' = "call"
                /\ UNCHANGED <<out, argi>>
    /\ UNCHANGED <<args, installed, fs, cacheDirErr, fetchCount, lastLinked, faults>>
    /\ UNCHANGED <<parseVars, resolveVars, raceVars, cacheVars, extractVars>>

\* p.Install returns to main
MainReturn ==
    /\ mainpc = "call" /\ Len(stack) = 1 /\ Returned(Top)
    /\ out' = IF Top.pc = "retErr"
              THEN Append(out, <<"Error installing package", Top.name>>)
              ELSE out
    /\ stack' = <<>>
    /\ argi' = nextArg(argi)
    /\ mainpc' = "loop"
    /\ UNCHANGED <<args, attempts, installed, fs, cacheDirErr, fetchCount, lastLinked, faults>>
    /\ UNCHANGED <<parseVars, resolveVars, raceVars, cacheVars, extractVars>>

MainDone ==
    /\ mainpc = "loop" /\ argi > Len(args)
    /\ out' = Append(out, Completion)
    /\ mainpc' = "done"
    /\ UNCHANGED <<args, argi, attempts>>
    /\ UNCHANGED <<engineVars, parseVars, resolveVars, raceVars, cacheVars, extractVars>>

(***************************************************************************)
(* Specifications.                                                         *)
(***************************************************************************)
ArgPool ==
    {<<"a">>, <<"c">>, <<"a", " ", "b">>}

SeqsUpTo(S, n) == UNION {[1..k -> S] : k \in 0..n}

MainIdle ==
    /\ args = <<>> /\ mainpc = "idle" /\ argi = 1 /\ out = <<>> /\ attempts = <<>>

EngineStart ==
    /\ installed = {}
    /\ stack = <<>>
    /\ fs = <<>>
    /\ fetchCount = [u \in DOMAIN Archives |-> 0]
    /\ lastLinked = [n \in DOMAIN Registry |-> Nil]
    /\ faults = 0

ParseIdle == pArg = <<>> /\ pOut = <<>>

ResolveIdle == rMeta = <<>> /\ rPkg = <<>> /\ rOut = <<>>

RaceIdle == procs = <<>>

CacheIdle == cPkgs = <<>> /\ cOut = <<>>

ExtractIdle == xHdr = <<>> /\ xOut = <<>>

OthersIdle == RaceIdle /\ CacheIdle /\ ExtractIdle

\* the installer run on a command line
Init ==
    /\ args \in SeqsUpTo(ArgPool, MaxArgs)
    /\ mainpc = "start" /\ argi = 1 /\ out = <<>> /\ attempts = <<>>
    /\ EngineStart
    /\ cacheDirErr \in BOOLEAN
    /\ ParseIdle /\ ResolveIdle /\ OthersIdle

Next ==
    \/ MainUsage \/ MainEnterLoop \/ MainParse \/ MainReturn \/ MainDone
    \/ InstallEnter \/ InstallResolveFault \/ InstallResolve \/ InstallCacheCheck
    \/ InstallDownload \/ InstallExtractEntry \/ InstallExtractFault
    \/ InstallLink \/ InstallDepCall \/ InstallDepsDone \/ InstallReturn

Spec == Init /\ [][Next]_vars

\* the program is sequential and every operation of the environment returns
FairSpec == Spec /\ WF_vars(Next)

\* Parse applied to every raw argument of at most MaxLen tokens
Alphabet == {"@", "/", " ", "a", "latest"}

InitParse ==
    /\ pArg \in SeqsUpTo(Alphabet, MaxLen)
    /\ pOut = <<>>
    /\ MainIdle /\ EngineStart /\ cacheDirErr = FALSE /\ ResolveIdle /\ OthersIdle

ParseCall ==
    /\ pOut = <<>>
    /\ pOut' = <<Parse(pArg)>>
    /\ UNCHANGED <<pArg, mainVars, engineVars, resolveVars, raceVars, cacheVars, extractVars>>

NextParse == ParseCall

SpecParse == InitParse /\ [][NextParse]_vars

\* the resolution applied to metadata documents and selectors
KeyPool ==
    {<<"1.0.0">>, <<"1.2.0">>, <<"v1.2.0">>, <<"2.0.0">>, <<"2.0.0-beta">>,
     <<"3.1.0">>, <<"legacy">>}

TagPool ==
    {<<>>,
     (LATEST :> <<"1.2.0">>),
     (LATEST :> <<"^1.0.0">>),
     (LATEST :> <<"9.9.9">>),
     (<<"1.0.0">> :> <<"2.0.0">>)}

SelectorPool ==
    {LATEST, <<"1.0.0">>, <<"1.2.0">>, <<"2.0.0">>, <<"^1.0.0">>, <<">=1.2.0">>,
     <<"3.x">>, <<"*">>, <<"legacy">>}

MetaPool ==
    {[DistTags |-> tags,
      Versions |-> [k \in keys |-> VersionInfo(Url(PkgA, k), (PkgB :> k))]] :
        tags \in TagPool,
        keys \in {K \in SUBSET KeyPool : Cardinality(K) <= MaxVersions}}

InitResolve ==
    /\ rMeta \in MetaPool
    /\ rPkg \in [Name : {PkgA}, Version : SelectorPool]
    /\ rOut = <<>>
    /\ MainIdle /\ EngineStart /\ cacheDirErr = FALSE /\ ParseIdle /\ OthersIdle

ResolveCall ==
    /\ rOut = <<>>
    /\ \E order \in Orders(DOMAIN rMeta.Versions) :
           rOut' = <<resolveVersion(rMeta, rPkg, order)>>
    /\ UNCHANGED <<rMeta, rPkg, mainVars, engineVars, parseVars, raceVars, cacheVars,
                   extractVars>>

NextResolve == ResolveCall

SpecResolve == InitResolve /\ [][NextResolve]_vars

(***************************************************************************)
(* Properties.                                                             *)
(***************************************************************************)
\* what the registry and the resolution give for a specifier, whatever the
\* scan order; err is not "nil" when the package or the version is unknown
SpecResolution(name, sel) ==
    IF name \notin DOMAIN Registry THEN ResolveErr("unexpected status code")
    ELSE LET meta == Registry[name]
         IN  resolveVersion(meta, [Name |-> name, Version |-> sel],
                            CHOOSE o \in Orders(DOMAIN meta.Versions) : TRUE)

\* the files an archive holds under package/: <<relative path, data, TRUE>>
ArchiveFiles(archive) ==
    {<<TrimPrefix(archive[i].Name, PackagePrefix), archive[i].data, TRUE>> :
        i \in {j \in 1..Len(archive) :
                   HasPrefix(archive[j].Name, PackagePrefix) /\ ~archive[j].IsDir}}

IsLink(p) == p \in DOMAIN fs /\ fs[p].kind = "link"

\* the install root's entry for name is a link to the cache entry of version
LinkedTo(name, version) ==
    /\ IsLink(LinkPath(name))
    /\ fs[LinkPath(name)].target = getCachePath(name, version)

Finished == mainpc \in {"done", "exit"}

\* C1: every Install call made by main returns (with success or an error),
\* also over a dependency graph that revisits packages and contains a cycle.
C1_InstallTerminates == (mainpc = "call") ~> (mainpc # "call")

\* C1 witness: a run without failures has walked the cycle
\* a@1.0.0 -> b@^1.0.0 -> a@1.0.0 and has come to its end.
C1_Witness ==
    /\ mainpc = "done" /\ faults = 0 /\ ~cacheDirErr
    /\ Key(PkgA, V100) \in installed
    /\ Key(PkgB, <<"^1.0.0">>) \in installed
    /\ IsLink(LinkPath(PkgA)) /\ IsLink(LinkPath(PkgB))

\* C2: whenever Install(spec) returns success, the install root holds an
\* entry for spec.name that refers to an existing cache entry holding the
\* package/-rooted files of the archive of the version spec resolves to.
C2_SuccessMeansLinkedToResolved ==
    (Running /\ Top.pc = "retOk" /\ SpecResolution(Top.name, Top.sel).err = "nil") =>
        LET r == SpecResolution(Top.name, Top.sel)
        IN  /\ LinkedTo(Top.name, r.resolved)
            /\ Exists(fs, getCachePath(Top.name, r.resolved))
            /\ FilesUnder(fs, getCachePath(Top.name, r.resolved))
                   = ArchiveFiles(Archives[r.tarball])

\* the names reachable from a set of specifiers through the declared
\* dependencies of the versions they resolve to
RECURSIVE DepClosure(_, _)
DepClosure(specs, n) ==
    IF n = 0 THEN specs
    ELSE DepClosure(
             specs \cup UNION {
                 LET r == SpecResolution(sp[1], sp[2])
                 IN  IF r.err = "nil" THEN {<<d, r.deps[d]>> : d \in DOMAIN r.deps}
                     ELSE {} : sp \in specs},
             n - 1)

ClosureDepth == 6

\* C3: whenever Install(spec) resolves spec and returns success, the install
\* root holds a link for spec.name and for every name among the resolved
\* version's dependencies, transitively.
C3_SuccessMeansDependenciesLinked ==
    (Running /\ Top.pc = "retOk" /\ ~Top.short) =>
        \A sp \in DepClosure({<<Top.name, Top.sel>>}, ClosureDepth) :
            IsLink(LinkPath(sp[1]))

\* C4: each archive is fetched and extracted at most once in a process, and
\* when an Install call returns success the link for its name points to the
\* cache entry of the version the call's specifier resolves to.
C4_FetchedOnceAndLinkCurrent ==
    /\ \A u \in DOMAIN fetchCount : fetchCount[u] <= 1
    /\ (Running /\ Top.pc = "retOk" /\ SpecResolution(Top.name, Top.sel).err = "nil") =>
           LinkedTo(Top.name, SpecResolution(Top.name, Top.sel).resolved)

\* C5: in the cache step the archive is fetched once when os.Stat reports the
\* cache path missing and not at all when it exists, and in the latter case
\* the step leaves what is at the cache path as it was.
C5_FetchDecidedByExistence ==
    \A i \in 1..Len(stack) :
        LET f == stack[i]
        IN  /\ f.pc \in {"enter", "resolve", "cache", "download"} => f.fetches = 0
            /\ (f.cachePath # <<>> /\ f.pc # "download") =>
                   f.fetches = (IF f.existed THEN 0 ELSE 1)
            /\ (i = Len(stack) /\ f.pc = "link" /\ f.existed) =>
                   Subtree(fs, f.cachePath) = f.snap

\* C5 witness: the cache step has found the entry of a version that an
\* earlier call fetched, and has fetched nothing.
C5_Witness ==
    /\ Running /\ Top.pc = "link" /\ Top.existed /\ Top.fetches = 0
    /\ fetchCount[Top.tarball] = 1

\* C6: every link in the install root is the link of one package name and
\* refers to the cache path of the link step that ran last for that name.
C6_LastWriterWins ==
    \A q \in DOMAIN fs :
        fs[q].kind = "link" =>
            /\ Cardinality({n \in DOMAIN lastLinked : LinkPath(n) = q}) = 1
            /\ \A n \in DOMAIN lastLinked :
                   LinkPath(n) = q => fs[q].target = lastLinked[n]

\* C6 witness: a was linked to its version 2.0.0 and then, by a dependency
\* of the same walk, to 1.0.0, which is where the link now points.
C6_Witness ==
    /\ faults = 0
    /\ Exists(fs, getCachePath(PkgA, V200))
    /\ LinkedTo(PkgA, V100)
    /\ Key(PkgA, LATEST) \in installed

RECURSIVE ExpectedAttempts(_)
ExpectedAttempts(n) ==
    IF n = 0 THEN <<>>
    ELSE ExpectedAttempts(n - 1) \o
             (IF Parse(args[n]).err # "nil" THEN <<<<"Parse", n>>>>
              ELSE <<<<"Parse", n>>, <<"Install", n>>>>)

\* C7: with at least one argument, main comes to its end having attempted
\* Parse on every argument and Install on every argument that parsed, in
\* order, and having printed the completion message last.
C7_EveryArgumentAttempted ==
    (mainpc = "loop") ~>
        (/\ mainpc = "done"
         /\ attempts = ExpectedAttempts(Len(args))
         /\ out[Len(out)] = Completion)

\* C7 witness: the first argument did not parse, the second was installed
\* and failed, and main is done.
C7_Witness ==
    /\ mainpc = "done" /\ Len(args) = 2
    /\ Parse(args[1]).err # "nil"
    /\ attempts = <<<<"Parse", 1>>, <<"Parse", 2>>, <<"Install", 2>>>>
    /\ Len(out) = 3 /\ out[2][1] = "Error installing package"

ResolveDone == rOut # <<>>

\* the selector after the dist-tag substitution
TagTarget ==
    IF rPkg.Version \in DOMAIN rMeta.DistTags THEN rMeta.DistTags[rPkg.Version]
    ELSE rPkg.Version

\* the keys that parse as versions and satisfy the constraint c
Satisfying(c) ==
    {k \in DOMAIN rMeta.Versions : NewVersion(k) # Nil /\ Check(c, NewVersion(k))}

\* C8: when the substituted selector is no key and parses as a constraint,
\* the resolution returns a parseable key that satisfies it and that no
\* other satisfying key exceeds, and fails with "no matching version"
\* exactly when no parseable key satisfies it.
C8_RangePicksMaximum ==
    (ResolveDone /\ TagTarget \notin DOMAIN rMeta.Versions
                 /\ NewConstraint(TagTarget).op # "error") =>
        LET sat == Satisfying(NewConstraint(TagTarget))
            r == rOut[1]
        IN  /\ r.err \in {"nil", "no matching version found"}
            /\ (r.err = "no matching version found") <=> (sat = {})
            /\ r.err = "nil" =>
                   /\ r.resolved \in sat
                   /\ \A k \in sat : ~GreaterThan(NewVersion(k), NewVersion(r.resolved))

\* C8 witness: ^1.0.0 over keys of which two satisfy it and one does not
\* parse resolves to the greater one.
C8_Witness ==
    /\ ResolveDone /\ TagTarget = <<"^1.0.0">>
    /\ {<<"1.0.0">>, <<"1.2.0">>, <<"legacy">>} \subseteq DOMAIN rMeta.Versions
    /\ rOut[1].resolved = <<"1.2.0">>

\* C9: the dist-tag target replaces the selector first, also when the
\* selector is a version key; a substituted selector that is a key is the
\* resolved version, with the URL and dependencies recorded under it; every
\* successful resolution returns a key of the versions mapping.
C9_TagThenExactKey ==
    ResolveDone =>
        LET r == rOut[1]
        IN  /\ TagTarget \in DOMAIN rMeta.Versions =>
                   r = ResolveOk(TagTarget, rMeta.Versions[TagTarget])
            /\ r.err = "nil" =>
                   /\ r.resolved \in DOMAIN rMeta.Versions
                   /\ r.tarball = rMeta.Versions[r.resolved].Tarball
                   /\ r.deps = rMeta.Versions[r.resolved].Dependencies

\* C9 witness: the selector 1.0.0 is a version key and a dist-tag for 2.0.0,
\* and the resolution returns 2.0.0.
C9_Witness ==
    /\ ResolveDone
    /\ rPkg.Version = <<"1.0.0">>
    /\ rPkg.Version \in DOMAIN rMeta.DistTags
    /\ rPkg.Version \in DOMAIN rMeta.Versions
    /\ rOut[1].err = "nil" /\ rOut[1].resolved = <<"2.0.0">>

ParseDone == pOut # <<>>

\* the input has no '@' other than a leading one
NoVersionSuffix(arg) == \A i \in 2..Len(arg) : arg[i] # "@"

ParseFailure(arg) ==
    IF arg = <<>> THEN "package name cannot be empty"
    ELSE IF HasPrefix(arg, <<"@">>) /\ NoVersionSuffix(arg) /\ ~Contains(arg, "/")
        THEN "invalid scoped package name"
    ELSE IF ~Contains(arg, "@") /\ Contains(arg, " ")
        THEN "package name cannot contain spaces"
    ELSE "nil"

\* C10 as stated: Parse fails exactly on the empty input, on a scoped input
\* without version and without '/', and on an input without '@' that holds
\* a space; otherwise the name is not empty, and the selector is "latest"
\* exactly when the input has no version suffix, the name then being the
\* whole input.
C10_LatestIffNoSuffix ==
    ParseDone =>
        LET r == pOut[1]
        IN  /\ r.err = ParseFailure(pArg)
            /\ r.err = "nil" =>
                   /\ r.Name # <<>>
                   /\ (r.Version = LATEST) <=> NoVersionSuffix(pArg)
                   /\ NoVersionSuffix(pArg) => r.Name = pArg

\* C10 amended: the same, but the selector is "latest" whenever the input
\* has no version suffix, and with a version suffix only when the suffix is
\* itself the text latest.
C10_LatestWhenNoSuffix ==
    ParseDone =>
        LET r == pOut[1]
        IN  /\ r.err = ParseFailure(pArg)
            /\ r.err = "nil" =>
                   /\ r.Name # <<>>
                   /\ NoVersionSuffix(pArg) => (r.Version = LATEST /\ r.Name = pArg)
                   /\ (r.Version = LATEST /\ ~NoVersionSuffix(pArg)) =>
                          pArg = r.Name \o <<"@">> \o LATEST

\* C10 witness: a@latest has a version suffix and parses to the selector
\* "latest".
C10_Witness ==
    /\ ParseDone /\ pArg = <<"a", "@", "latest">>
    /\ pOut[1].err = "nil" /\ pOut[1].Version = LATEST

\* the key of an activation
FrameKey(f) == Key(f.name, f.sel)

\* what an Install call can change outside its own activation
Effects == <<fs, fetchCount, lastLinked, faults>>

\* C11: Install marks its key before it resolves, the visited set never loses
\* a key, a call with a visited key returns success at once and changes
\* nothing else, and the resolver is entered only by the call that marked
\* the key, so at most once for each key.
C11_VisitedKeyShortCircuits ==
    [][/\ installed \subseteq installed'
       /\ (Running /\ Top.pc = "enter") =>
              /\ Len(stack') = Len(stack)
              /\ Effects' = Effects
              /\ IF FrameKey(Top) \in installed
                 THEN /\ Top'.pc = "retOk"
                      /\ installed' = installed
                 ELSE /\ Top'.pc = "resolve"
                      /\ installed' = installed \cup {FrameKey(Top)}
       /\ (Running' /\ Top'.pc = "resolve") =>
              /\ FrameKey(Top') \in installed'
              /\ \/ Running /\ Len(stack) = Len(stack') /\ Top.pc = "resolve"
                 \/ FrameKey(Top') \notin installed
      ]_vars

\* C11 witness: Install(a@1.0.0) was entered a second time while its first
\* activation was still waiting for its dependencies, and has returned
\* success at once.
C11_Witness ==
    /\ Running /\ Top.pc = "retOk" /\ Top.short
    /\ \E i \in 1..(Len(stack) - 1) :
           FrameKey(stack[i]) = FrameKey(Top) /\ stack[i].pc = "deps"

\* the positions of Install before its link step
PreLink == {"resolve", "cache", "download", "extract"}

NodeModules == <<"node_modules">>

\* the install root with everything in it
InstallRoot(f) == Subtree(f, NodeModules)

\* C12: a step of the resolver or of the cache step leaves the install root
\* as it is and starts no other Install; when the step fails (the resolution
\* gives an error, or the environment does) the activation returns an error
\* from there, without linking and without a dependency; an activation that
\* returns an error starts nothing; and main goes on to its next argument.
C12_FailureBeforeLinkLeavesRoot ==
    [][/\ (Running /\ Top.pc \in PreLink) =>
              /\ Len(stack') = Len(stack)
              /\ Top'.pc \in PreLink \cup {"link", "retErr"}
              /\ InstallRoot(fs') = InstallRoot(fs)
              /\ lastLinked' = lastLinked
              /\ (faults' # faults \/ (Top.pc = "cache" /\ cacheDirErr) \/
                  (Top.pc = "resolve" /\ SpecResolution(Top.name, Top.sel).err # "nil"))
                     => (Top'.pc = "retErr" /\ Top'.todo = Top.todo)
       /\ (Running /\ Top.pc = "retErr") =>
              /\ Len(stack') = Len(stack) - 1
              /\ fs' = fs
              /\ installed' = installed
              /\ fetchCount' = fetchCount
       /\ (mainpc = "call" /\ Len(stack) = 1 /\ Top.pc = "retErr") =>
              (mainpc' = "loop" /\ argi' = argi + 1)
      ]_vars

\* C12 witness: Install(a@1.0.0), a dependency in the walk of a@latest, has
\* failed in its resolver or cache step while node_modules/a was the link
\* a@latest had made, and the link is still that one.
C12_Witness ==
    /\ Running /\ Top.pc = "retErr" /\ Top.name = PkgA /\ Top.sel = V100
    /\ Top.err \in {"fetch metadata", "decode metadata", "http get", "gzip reader",
                    "read tar", "mkdir parent", "create file", "copy to"}
    /\ LinkedTo(PkgA, V200)

\* C13: the callers of the running Install all wait in their loop over the
\* dependencies, which starts one dependency at a time; when a dependency
\* returns an error its caller returns an error in the same step, with the
\* dependencies it had not started still not started, and so on up to main,
\* which prints the failure; no return step changes the file system.
C13_FirstDependencyFailureAborts ==
    [][/\ \A i \in 1..(Len(stack) - 1) : stack[i].pc = "deps"
       /\ Len(stack') > Len(stack) /\ Running =>
              /\ Top.pc = "deps" /\ Len(stack') = Len(stack) + 1
              /\ Top'.name \in Top.todo /\ Top'.sel = Top.deps[Top'.name]
              /\ stack'[Len(stack)].todo = Top.todo \ {Top'.name}
       /\ (Len(stack) >= 2 /\ Top.pc = "retErr") =>
              /\ Len(stack') = Len(stack) - 1
              /\ Top'.pc = "retErr"
              /\ Top'.todo = stack[Len(stack) - 1].todo
              /\ fs' = fs /\ lastLinked' = lastLinked
       /\ (Len(stack) = 1 /\ Top.pc = "retErr") =>
              /\ stack' = <<>>
              /\ out' = Append(out, <<"Error installing package", Top.name>>)
              /\ fs' = fs /\ lastLinked' = lastLinked
      ]_vars

\* C13 witness: Install(a@latest) returns an error to main because its
\* dependency b failed below b's own link step; its dependency c was never
\* started, and the links of a and b are still there.
C13_Witness ==
    /\ Len(stack) = 1 /\ Top.pc = "retErr" /\ Top.err = "install dep"
    /\ Top.name = PkgA /\ Top.sel = LATEST /\ Top.todo = {PkgC}
    /\ IsLink(LinkPath(PkgA)) /\ IsLink(LinkPath(PkgB))
    /\ ~Exists(fs, LinkPath(PkgC))
    /\ Key(PkgC, LATEST) \notin installed

\* the cache entry of (name, version) is there without all of the archive
Incomplete(name, version) ==
    /\ Exists(fs, getCachePath(name, version))
    /\ FilesUnder(fs, getCachePath(name, version))
           # ArchiveFiles(Archives[Url(name, version)])

\* C14: an extraction that fails removes nothing of what it (or anyone) has
\* written; an activation that finds its cache path present goes to the link
\* step without a fetch, whatever is at the path, and its link step links
\* the name to that path and leaves the entry as it is.
C14_PartialEntryServed ==
    [][/\ (Running /\ Top.pc = "extract" /\ Top'.pc = "retErr") =>
              \A q \in DOMAIN fs : q \in DOMAIN fs' /\ fs'[q].kind = fs[q].kind
       /\ (Running /\ Top.pc = "cache" /\ ~cacheDirErr
                   /\ Exists(fs, getCachePath(Top.name, Top.resolved))) =>
              /\ Top'.pc = "link" /\ Top'.existed
              /\ fetchCount' = fetchCount /\ fs' = fs
       /\ (Running /\ Top.pc = "link" /\ Top.existed /\ faults' = faults) =>
              /\ Top'.pc = "deps"
              /\ LinkPath(Top.name) \in DOMAIN fs'
              /\ fs'[LinkPath(Top.name)] = LinkNode(Top.cachePath)
              /\ Subtree(fs', Top.cachePath) = Subtree(fs, Top.cachePath)
      ]_vars

\* C14 witness: the extraction of b 1.0.0 for b@1.0.0 broke off after its
\* first file; Install(b@^1.0.0) then found the directory, fetched nothing,
\* linked b to the incomplete entry and returns success.
C14_Witness ==
    /\ Running /\ Top.pc = "retOk" /\ ~Top.short
    /\ Top.name = PkgB /\ Top.sel = <<"^1.0.0">>
    /\ Top.existed /\ Top.fetches = 0
    /\ fetchCount[Url(PkgB, V100)] = 1
    /\ Incomplete(PkgB, V100)
    /\ <<<<"index.js">>, "b1", TRUE>> \in FilesUnder(fs, getCachePath(PkgB, V100))
    /\ LinkedTo(PkgB, V100)

\* two activations of the walk are installing the same version of the same
\* package under different selectors
SameVersionTwice ==
    \E i, j \in 1..Len(stack) :
        /\ i < j
        /\ stack[i].name = stack[j].name /\ stack[i].sel # stack[j].sel
        /\ stack[i].resolved # <<>> /\ stack[i].resolved = stack[j].resolved

\* the keys an Install can be called with: the arguments that parse and the
\* dependency entries of the registry
AllKeys ==
    {Key(Parse(args[i]).Name, Parse(args[i]).Version) :
        i \in {k \in 1..Len(args) : Parse(args[k]).err = "nil"}}
    \cup UNION {UNION {{Key(d, Registry[n].Versions[v].Dependencies[d]) :
                           d \in DOMAIN Registry[n].Versions[v].Dependencies} :
                       v \in DOMAIN Registry[n].Versions} :
                n \in DOMAIN Registry}

\* C15 as stated: once the walk is inside a cycle that comes back to the
\* same version of a package through a different selector, the call main
\* made never returns.
C15_SelectorCycleNeverReturns ==
    [](SameVersionTwice => [](mainpc = "call"))

\* C15 amended: the walk does come back to the same version through a
\* different selector without being stopped, but no key is being installed
\* by two activations at once (a second activation of a key is the innermost
\* one and returns at once), so the recursion is never deeper than the
\* number of keys plus one.
C15_SelectorCycleIsBounded ==
    /\ \A i, j \in 1..Len(stack) :
           (i < j /\ FrameKey(stack[i]) = FrameKey(stack[j])) =>
               /\ j = Len(stack)
               /\ stack[j].pc \in {"enter", "retOk"}
               /\ stack[j].pc = "retOk" => stack[j].short
    /\ \A i \in 1..Len(stack) :
           stack[i].pc \notin {"enter"} => FrameKey(stack[i]) \in installed
    /\ installed \subseteq AllKeys
    /\ Len(stack) <= Cardinality(AllKeys) + 1

\* C15 witness: in the walk of a@latest, b 1.0.0 is being installed for
\* b@1.0.0 and, further in, once more for b@^1.0.0, and that activation has
\* resolved and linked it again.
C15_Witness ==
    /\ SameVersionTwice
    /\ \E i, j \in 1..Len(stack) :
           /\ i < j
           /\ FrameKey(stack[i]) = Key(PkgB, V100) /\ stack[i].pc = "deps"
           /\ FrameKey(stack[j]) = Key(PkgB, <<"^1.0.0">>) /\ stack[j].pc = "deps"

(***************************************************************************)
(* Several processes install the same package at the same time.  Each has  *)
(* its own visited set and has resolved a@latest; they share the cache     *)
(* and the install root.  The steps are those of Install from line 81 to   *)
(* line 101, one system call (or one turn of the extraction loop) each.    *)
(***************************************************************************)
Procs == 1..MaxProcs

RaceFrame ==
    LET r == SpecResolution(PkgA, LATEST)
    IN  [NewFrame(PkgA, LATEST) EXCEPT !.pc = "cache", !.resolved = r.resolved,
                                      !.tarball = r.tarball, !.deps = r.deps,
                                      !.todo = DOMAIN r.deps]

InitRace ==
    /\ procs = [p \in Procs |-> RaceFrame]
    /\ MainIdle /\ EngineStart /\ cacheDirErr = FALSE
    /\ ParseIdle /\ ResolveIdle /\ CacheIdle /\ ExtractIdle

RaceUnchanged ==
    /\ UNCHANGED <<installed, stack, cacheDirErr, lastLinked, faults>>
    /\ UNCHANGED <<mainVars, parseVars, resolveVars, cacheVars, extractVars>>

RaceCacheCheck(p) ==
    /\ procs[p].pc = "cache"
    /\ procs' = [procs EXCEPT ![p] = cacheCheck(@, fs)]
    /\ UNCHANGED <<fs, fetchCount>>
    /\ RaceUnchanged

RaceDownload(p) ==
    /\ procs[p].pc = "download"
    /\ procs' = [procs EXCEPT ![p] = [@ EXCEPT !.pc = "extract", !.idx = 1,
                                               !.fetches = @ + 1]]
    /\ fetchCount' = [fetchCount EXCEPT ![procs[p].tarball] = @ + 1]
    /\ UNCHANGED fs
    /\ RaceUnchanged

RaceExtractEntry(p) ==
    /\ procs[p].pc = "extract"
    /\ LET fr == procs[p]
           archive == Archives[fr.tarball]
       IN  IF fr.idx > Len(archive)
           THEN /\ procs' = [procs EXCEPT ![p] = [@ EXCEPT !.pc = "link"]]
                /\ UNCHANGED fs
           ELSE LET r == extractEntry(fs, fr.cachePath, archive[fr.idx])
                IN  /\ fs' = r.fs
                    /\ procs' = [procs EXCEPT ![p] =
                                     IF r.err = "nil" THEN [@ EXCEPT !.idx = @ + 1]
                                     ELSE Fail(@, r.err)]
    /\ UNCHANGED fetchCount
    /\ RaceUnchanged

\* os.RemoveAll(linkPath) and os.MkdirAll(filepath.Dir(linkPath))
RaceUnlink(p) ==
    /\ procs[p].pc = "link"
    /\ LET made == MkdirAll(RemoveAll(fs, LinkPath(procs[p].name)),
                            Dir(LinkPath(procs[p].name)))
       IN  /\ fs' = made.fs
           /\ procs' = [procs EXCEPT ![p] = IF made.ok THEN [@ EXCEPT !.pc = "symlink"]
                                            ELSE Fail(@, "create parent dir")]
    /\ UNCHANGED fetchCount
    /\ RaceUnchanged

\* os.Symlink(cachePath, linkPath): fails when another process's link is there
RaceSymlink(p) ==
    /\ procs[p].pc = "symlink"
    /\ LET linked == Symlink(fs, procs[p].cachePath, LinkPath(procs[p].name))
       IN  /\ fs' = linked.fs
           /\ procs' = [procs EXCEPT ![p] = IF linked.ok THEN [@ EXCEPT !.pc = "deps"]
                                            ELSE Fail(@, "symlink")]
    /\ UNCHANGED fetchCount
    /\ RaceUnchanged

NextRace ==
    \E p \in Procs :
        \/ RaceCacheCheck(p) \/ RaceDownload(p) \/ RaceExtractEntry(p)
        \/ RaceUnlink(p) \/ RaceSymlink(p)

SpecRace == InitRace /\ [][NextRace]_vars

\* C16: nothing keeps a process from the cache path another process is
\* working on: each process decides by the existence of the path at its own
\* os.Stat alone, fetches exactly when it found the path missing, however
\* many others are fetching, and a process that found the path there links
\* to it without a fetch, whatever the entry holds by then.
C16_NoLockOnCachePath ==
    /\ \A p \in Procs :
           LET fr == procs[p]
           IN  /\ fr.pc \notin {"cache", "download"} =>
                      fr.fetches = (IF fr.existed THEN 0 ELSE 1)
               /\ fr.pc \in {"cache", "download"} => fr.fetches = 0
               /\ fr.pc = "deps" => LinkedTo(fr.name, fr.resolved) \/
                                    \E q \in Procs \ {p} : procs[q].pc = "symlink"
    /\ \A u \in DOMAIN fetchCount :
           fetchCount[u] = Cardinality({p \in Procs : procs[p].tarball = u
                                                      /\ procs[p].fetches = 1})

\* C16 witness: two processes found the cache path missing and are both
\* extracting into it, and a third found the directory the first had just
\* made, fetched nothing and has linked the install root to the entry,
\* which does not hold the package's file yet.
C16_Witness ==
    \E p, q, r \in Procs :
        /\ p # q
        /\ ~procs[p].existed /\ procs[p].pc = "extract"
        /\ ~procs[q].existed /\ procs[q].pc = "extract"
        /\ procs[p].idx <= Len(Archives[procs[p].tarball])
        /\ procs[q].idx <= Len(Archives[procs[q].tarball])
        /\ fetchCount[Url(PkgA, V200)] = 2
        /\ procs[r].existed /\ procs[r].fetches = 0 /\ procs[r].pc = "deps"
        /\ LinkedTo(PkgA, V200)
        /\ Incomplete(PkgA, V200)

\* C17: a versioned input parses; the name is not empty, name, "@" and
\* selector put together give the input back, an unscoped input is split at
\* its first "@" (none in the name) and a scoped one at its last (none in
\* the selector); nothing else is asked of the selector.
C17_SplitGivesInputBack ==
    (ParseDone /\ ~NoVersionSuffix(pArg)) =>
        LET r == pOut[1]
        IN  /\ r.err = "nil"
            /\ r.Name # <<>>
            /\ r.Name \o <<"@">> \o r.Version = pArg
            /\ IF HasPrefix(pArg, <<"@">>) THEN ~Contains(r.Version, "@")
               ELSE ~Contains(r.Name, "@")

\* C17 witness: a@/@ is split at its first "@", and the selector /@ is
\* taken as it is.
C17_Witness ==
    /\ ParseDone /\ pArg = <<"a", "@", "/", "@">>
    /\ pOut[1].err = "nil"
    /\ pOut[1].Name = <<"a">> /\ pOut[1].Version = <<"/", "@">>

(***************************************************************************)
(* getCachePath applied to two resolved packages.                          *)
(***************************************************************************)
NamePool ==
    {<<"a">>, <<"b", "_", "c">>, <<"@", "a", "/", "b">>,
     <<"@", "a", "/", "b", "_", "c">>, <<"@", "a", "_", "b", "/", "c">>}

VersionPool == {V100, V200}

InitCachePath ==
    /\ cPkgs \in [1..2 -> [Name : NamePool, Version : VersionPool]]
    /\ cOut = <<>>
    /\ MainIdle /\ EngineStart /\ cacheDirErr = FALSE
    /\ ParseIdle /\ ResolveIdle /\ RaceIdle /\ ExtractIdle

CachePathCall ==
    /\ cOut = <<>>
    /\ cOut' = [i \in 1..2 |-> getCachePath(cPkgs[i].Name, cPkgs[i].Version)]
    /\ UNCHANGED <<cPkgs, mainVars, engineVars, parseVars, resolveVars, raceVars,
                   extractVars>>

NextCachePath == CachePathCall

SpecCachePath == InitCachePath /\ [][NextCachePath]_vars

\* C18: two resolved packages that differ in name or version have different
\* cache paths.
C18_CachePathInjective ==
    (cOut # <<>> /\ cPkgs[1] # cPkgs[2]) => cOut[1] # cOut[2]

(***************************************************************************)
(* One turn of the extraction loop applied to a tar entry of any name.     *)
(* Install calls downloadAndExtract when the cache path is absent, so the  *)
(* turn starts from the empty file system (first entry) or from one where  *)
(* an earlier entry has made the cache path.                               *)
(***************************************************************************)
ExtractDest == getCachePath(PkgA, V100)

ExtractFs0 == MkdirAll(<<>>, ExtractDest).fs

\* entry names: with or without the package/ prefix, then up to MaxLen
\* tokens of separators, ".." and a plain segment
EntryNames ==
    {pre \o rest : pre \in {<<>>, <<"package">>, PackagePrefix},
                   rest \in SeqsUpTo({"/", "..", "x"}, MaxLen)}

InitExtract ==
    /\ xHdr \in {Entry(n, d, "x1") : n \in EntryNames \ {<<>>}, d \in BOOLEAN}
    /\ xOut = <<>>
    /\ fs \in {<<>>, ExtractFs0}
    /\ installed = {} /\ stack = <<>> /\ faults = 0 /\ cacheDirErr = FALSE
    /\ fetchCount = [u \in DOMAIN Archives |-> 0]
    /\ lastLinked = [n \in DOMAIN Registry |-> Nil]
    /\ MainIdle /\ ParseIdle /\ ResolveIdle /\ RaceIdle /\ CacheIdle

ExtractCall ==
    /\ xOut = <<>>
    /\ LET r == extractEntry(fs, ExtractDest, xHdr)
       IN  /\ fs' = r.fs
           /\ xOut' = <<[err |-> r.err, before |-> fs]>>
    /\ UNCHANGED <<xHdr, installed, stack, cacheDirErr, fetchCount, lastLinked, faults>>
    /\ UNCHANGED <<mainVars, parseVars, resolveVars, raceVars, cacheVars>>

NextExtract == ExtractCall

SpecExtract == InitExtract /\ [][NextExtract]_vars

\* what the turn created or replaced
Created ==
    {q \in DOMAIN fs : q \notin DOMAIN xOut[1].before \/ fs[q] # xOut[1].before[q]}

Inside(q, dest) == q = dest \/ Under(q, dest)

\* the parents MkdirAll has to make on the way down to the cache path
Above(q, dest) == Under(dest, q)

\* C19: an entry without the package/ prefix creates nothing; for an entry
\* with it the extraction target is the cache path or lies below it, and so
\* does everything the turn creates (the parents of the cache path apart).
C19_ExtractionStaysInside ==
    xOut # <<>> =>
        /\ ~HasPrefix(xHdr.Name, PackagePrefix) => Created = {}
        /\ HasPrefix(xHdr.Name, PackagePrefix) =>
               Inside(extractTarget(ExtractDest, xHdr.Name), ExtractDest)
        /\ \A q \in Created : Inside(q, ExtractDest) \/ Above(q, ExtractDest)

====
